---- MODULE Spec2Model ----
(***************************************************************************)
(* CoronaRoom: allocation of rooms to capsules by random allocation and    *)
(* greedy repair (src/capsule.py, src/constraints.py, src/room.py).        *)
(*                                                                         *)
(* The model follows one construction of a CapsulesManager: the retry loop *)
(* of __init__, build_capsules, and the steps of fix_capsules (the scan of *)
(* the capsules, commit_action for every suggested action, the             *)
(* re-allocation of orphan rooms).  After a successful construction the    *)
(* holder of the manager may call the public fix_capsules again.           *)
(***************************************************************************)
EXTENDS Integers, Sequences, FiniteSets, TLC

(***************************************************************************)
(* Bounds of the model.                                                    *)
(***************************************************************************)
MaxRooms == 3

MaxCapsules == 2

MaxTries == 2

MaxFixes == 2

MaxRoomCount == 2

MaxCallerCalls == 1

(***************************************************************************)
(* Python's None as the value of an unassigned room.                       *)
(***************************************************************************)
None == -1

VARIABLES
    rooms,                  \* self.rooms: index -> Room (gender, constraints)
    capsules_count,         \* self.capsules_count
    global_constraints,     \* self.global_constraints
    max_tries_count,        \* self.max_tries_count
    max_fixes_count,        \* self.max_fixes_count
    existing_room_mapping,  \* the caller's dict: <<>> for None, <<m>> for a dict
    supplied,               \* history: the caller's dict as it was handed over
    room_mapping,           \* self.room_mapping
    capsules,               \* self.capsules: index -> [rooms, constraints]
    pc,                     \* position in __init__ / build_capsules / fix_capsules
    try_count,              \* __init__: tries completed
    fix_count,              \* build_capsules: rounds completed in this try
    need_fixing,            \* fix_capsules: local need_fixing
    needed_fixing,          \* build_capsules: result of the last fix_capsules
    actions,                \* fix_capsules: actions of the invalid capsule not yet committed
    fixed_capsule,          \* history: the capsule whose actions the running round applies, else None
    round_start,            \* history: room_mapping when the running round began, else as it is now
    rounds,                 \* history: rounds completed inside the constructor
    caller_calls            \* calls of fix_capsules made by the holder after construction

vars == << rooms, capsules_count, global_constraints, max_tries_count,
           max_fixes_count, existing_room_mapping, supplied, room_mapping,
           capsules, pc, try_count, fix_count, need_fixing, needed_fixing,
           actions, fixed_capsule, round_start, rounds, caller_calls >>

config == << rooms, capsules_count, global_constraints, max_tries_count,
             max_fixes_count, supplied >>

(***************************************************************************)
(* Rooms, genders, constraints, actions.                                   *)
(***************************************************************************)
Gender == {"Female", "Male"}

GenderConstraint == [kind |-> "Gender", room1 |-> 0, room2 |-> 0, max_room_count |-> 0]

RoomCountConstraint(max_room_count) ==
    [kind |-> "RoomCount", room1 |-> 0, room2 |-> 0, max_room_count |-> max_room_count]

ConnectingConstraint(room1, room2) ==
    [kind |-> "Connecting", room1 |-> room1, room2 |-> room2, max_room_count |-> 0]

Reduce(capsule_index, room) == [kind |-> "Reduce", capsule_index |-> capsule_index, room |-> room]

Add(capsule_index, room) == [kind |-> "Add", capsule_index |-> capsule_index, room |-> room]

Room(gender, constraints) == [gender |-> gender, constraints |-> constraints]

CapsuleIndices == 0..(capsules_count - 1)

\* The elements of a sequence.
Range(s) == {s[i] : i \in DOMAIN s}

\* The concatenation of a sequence of sequences.
RECURSIVE Flatten(_)
Flatten(ss) == IF ss = <<>> THEN <<>> ELSE Head(ss) \o Flatten(Tail(ss))

\* The numbers lo..hi as an ascending sequence (Python's range(lo, hi + 1)).
Ascending(lo, hi) == [i \in 1..(hi - lo + 1) |-> lo + i - 1]

\* common.shuffle_list: a new list holding the elements of lst in some order.
shuffle_list(lst) ==
    {[i \in 1..Len(lst) |-> lst[p[i]]] : p \in Permutations(1..Len(lst))}

\* Python's lst[lo:hi] for 0 <= lo (0-based, hi exclusive, clipped to the list).
Slice(lst, lo, hi) ==
    LET h == IF hi > Len(lst) THEN Len(lst) ELSE hi
    IN  IF lo >= h THEN <<>> ELSE [i \in 1..(h - lo) |-> lst[lo + i]]

(***************************************************************************)
(* Action.do                                                               *)
(***************************************************************************)
Do(action, mapping) ==
    IF action.kind = "Reduce"
    THEN [mapping EXCEPT ![action.room] = None]
    ELSE [mapping EXCEPT ![action.room] = action.capsule_index]

(***************************************************************************)
(* Constraint.order and Constraint.is_valid.  A result is                  *)
(* [valid, state, raised]: raised stands for the ValueError of the Gender  *)
(* check.  RoomCount draws its rooms at random, so every is_valid gives    *)
(* the set of its possible results.                                        *)
(***************************************************************************)
Order(c) ==
    CASE c.kind = "Gender" -> 20
      [] c.kind = "Connecting" -> 10
      [] OTHER -> (c.max_room_count - 2) * 8

Result(valid, state, raised) == [valid |-> valid, state |-> state, raised |-> raised]

\* Counter(...).most_common()[-1]: the gender with the smaller count; on equal
\* counts the gender that enters the Counter last (sorted is stable).
LeastCommonGender(rs) ==
    LET first == rooms[rs[1]].gender
        other == CHOOSE g \in Gender : g # first
        count(g) == Cardinality({i \in DOMAIN rs : rooms[rs[i]].gender = g})
    IN  IF count(first) < count(other) THEN first ELSE other

\* Mutant: two genders in a capsule pass the check.
MutGenderIsValid(capsule_index, rs) ==
    IF Cardinality({rooms[r].gender : r \in Range(rs)}) \in {1, 2}
    THEN {Result(TRUE, <<>>, FALSE)}
    ELSE {Result(FALSE, <<>>, TRUE)}

GenderIsValid(capsule_index, rs) ==
    LET gender_counter == {rooms[r].gender : r \in Range(rs)}
    IN  IF Cardinality(gender_counter) = 1
        THEN {Result(TRUE, <<>>, FALSE)}
        ELSE IF Cardinality(gender_counter) = 2
        THEN LET least == LeastCommonGender(rs)
                 minority == SelectSeq(rs, LAMBDA r : rooms[r].gender = least)
             IN  {Result(FALSE, [i \in DOMAIN minority |-> Reduce(capsule_index, minority[i])], FALSE)}
        ELSE {Result(FALSE, <<>>, TRUE)}

\* Mutant: one room more than max_room_count passes the check.
MutRoomCountIsValid(c, capsule_index, rs) ==
    IF Len(rs) <= c.max_room_count + 1
    THEN {Result(TRUE, <<>>, FALSE)}
    ELSE LET to_reduce == Len(rs) - c.max_room_count
         IN  {Result(FALSE,
                     [i \in 1..to_reduce |-> Reduce(capsule_index, s[i])],
                     FALSE) : s \in shuffle_list(rs)}

\* Mutant: a single room is reduced, however many are over the max.
MutRoomCountReduceOne(c, capsule_index, rs) ==
    IF Len(rs) <= c.max_room_count
    THEN {Result(TRUE, <<>>, FALSE)}
    ELSE {Result(FALSE, << Reduce(capsule_index, s[1]) >>, FALSE) : s \in shuffle_list(rs)}

RoomCountIsValid(c, capsule_index, rs) ==
    IF Len(rs) <= c.max_room_count
    THEN {Result(TRUE, <<>>, FALSE)}
    ELSE LET to_reduce == Len(rs) - c.max_room_count
         IN  {Result(FALSE,
                     [i \in 1..to_reduce |-> Reduce(capsule_index, s[i])],
                     FALSE) : s \in shuffle_list(rs)}

\* Mutant: `and` for `^`, so a lone room of a pair passes the check.
MutConnectingIsValid(c, capsule_index, rs) ==
    LET in1 == c.room1 \in Range(rs)
        in2 == c.room2 \in Range(rs)
    IN  IF in1 /\ in2 /\ in1 # in2
        THEN {Result(FALSE, << Add(capsule_index, IF in1 THEN c.room2 ELSE c.room1) >>, FALSE)}
        ELSE {Result(TRUE, <<>>, FALSE)}

ConnectingIsValid(c, capsule_index, rs) ==
    LET in1 == c.room1 \in Range(rs)
        in2 == c.room2 \in Range(rs)
    IN  IF in1 # in2
        THEN {Result(FALSE, << Add(capsule_index, IF in1 THEN c.room2 ELSE c.room1) >>, FALSE)}
        ELSE {Result(TRUE, <<>>, FALSE)}

IsValid(c, capsule_index, rs) ==
    CASE c.kind = "Gender" -> GenderIsValid(capsule_index, rs)
      [] c.kind = "Connecting" -> ConnectingIsValid(c, capsule_index, rs)
      [] OTHER -> RoomCountIsValid(c, capsule_index, rs)

\* Whether a constraint lets the scan of Capsule._is_valid go on.
Passes(c, capsule_index, rs) ==
    \A r \in IsValid(c, capsule_index, rs) : r.valid /\ ~r.raised

(***************************************************************************)
(* Capsule                                                                 *)
(***************************************************************************)
\* sorted(constraints, key=lambda c: c.order): ascending, stable.
RECURSIVE SortedFrom(_, _)
SortedFrom(cs, orders) ==
    IF orders = {}
    THEN <<>>
    ELSE LET o == CHOOSE x \in orders : \A y \in orders : x <= y
         IN  SelectSeq(cs, LAMBDA c : Order(c) = o) \o SortedFrom(cs, orders \ {o})

Sorted(cs) == SortedFrom(cs, {Order(cs[i]) : i \in DOMAIN cs})

\* Capsule._is_valid: the results of the first constraint, in order, that does
\* not pass; (True, []) if every constraint passes.
CapsuleIsValid(capsule_index, capsule) ==
    LET ordered_constraints == Sorted(capsule.constraints)
        bad == {i \in DOMAIN ordered_constraints :
                   ~Passes(ordered_constraints[i], capsule_index, capsule.rooms)}
    IN  IF bad = {}
        THEN {Result(TRUE, <<>>, FALSE)}
        ELSE LET i == CHOOSE x \in bad : \A y \in bad : x <= y
             IN  IsValid(ordered_constraints[i], capsule_index, capsule.rooms)

\* Capsule.apply_constraints: the constraint list is extended in place.
ApplyConstraints(capsule, globals) ==
    [capsule EXCEPT !.constraints = @ \o globals]

\* Capsule._update_constraints
UpdateConstraints(rs) == Flatten([i \in DOMAIN rs |-> rooms[rs[i]].constraints])

\* Capsule.update: the rooms mapped to the capsule, in the mapping's key order.
Update(capsule_index, mapping) ==
    LET rs == SelectSeq(Ascending(1, Len(rooms)), LAMBDA r : mapping[r] = capsule_index)
    IN  [rooms |-> rs, constraints |-> UpdateConstraints(rs)]

\* CapsulesManager.update_capsules
UpdateCapsules(mapping) == [i \in CapsuleIndices |-> Update(i, mapping)]

\* Whether a capsule, checked now, is valid.
CapsuleValid(capsule_index, capsule, globals) ==
    \A r \in CapsuleIsValid(capsule_index, ApplyConstraints(capsule, globals)) :
        r.valid /\ ~r.raised

(***************************************************************************)
(* CapsulesManager.allocate_rooms_randomly                                 *)
(***************************************************************************)
\* The mapping after the two loops, for one outcome of the shuffles: capsule c
\* takes shuffled_rooms[c * factor : (c + 1) * factor], and the rooms left
\* over are zipped with the re-shuffled capsules.
\* Mutant: the rooms left over after the blocks are not allocated.
MutAllocateWith(mapping, shuffled_rooms, shuffled_capsules) ==
    LET factor == Len(shuffled_rooms) \div capsules_count
        block(c) == Range(Slice(shuffled_rooms, c * factor, (c + 1) * factor))
    IN  [r \in DOMAIN mapping |->
            IF \E c \in CapsuleIndices : r \in block(c)
            THEN CHOOSE c \in CapsuleIndices : r \in block(c)
            ELSE mapping[r]]

\* Mutant: the rooms left over after the blocks all go to one capsule.
MutAllocateLeftToOne(mapping, shuffled_rooms, shuffled_capsules) ==
    LET factor == Len(shuffled_rooms) \div capsules_count
        block(c) == Range(Slice(shuffled_rooms, c * factor, (c + 1) * factor))
        rest == Slice(shuffled_rooms, factor * capsules_count, Len(shuffled_rooms))
    IN  [r \in DOMAIN mapping |->
            IF r \in Range(rest)
            THEN shuffled_capsules[1]
            ELSE IF \E c \in CapsuleIndices : r \in block(c)
            THEN CHOOSE c \in CapsuleIndices : r \in block(c)
            ELSE mapping[r]]

AllocateWith(mapping, shuffled_rooms, shuffled_capsules) ==
    LET factor == Len(shuffled_rooms) \div capsules_count
        block(c) == Range(Slice(shuffled_rooms, c * factor, (c + 1) * factor))
        rest == Slice(shuffled_rooms, factor * capsules_count, Len(shuffled_rooms))
        zipped == IF Len(rest) < Len(shuffled_capsules) THEN Len(rest) ELSE Len(shuffled_capsules)
    IN  [r \in DOMAIN mapping |->
            IF \E j \in 1..zipped : rest[j] = r
            THEN shuffled_capsules[CHOOSE j \in 1..zipped : rest[j] = r]
            ELSE IF \E c \in CapsuleIndices : r \in block(c)
            THEN CHOOSE c \in CapsuleIndices : r \in block(c)
            ELSE mapping[r]]

\* Mutant: every room is allocated, whichever rooms are given.
MutAllocateRoomsRandomly(mapping, room_indices) ==
    {AllocateWith(mapping, shuffled_rooms, shuffled_capsules) :
        shuffled_rooms \in shuffle_list(Ascending(1, Len(mapping))),
        shuffled_capsules \in shuffle_list(Ascending(0, capsules_count - 1))}

AllocateRoomsRandomly(mapping, room_indices) ==
    {AllocateWith(mapping, shuffled_rooms, shuffled_capsules) :
        shuffled_rooms \in shuffle_list(room_indices),
        shuffled_capsules \in shuffle_list(Ascending(0, capsules_count - 1))}

\* Mutant: the test for None inverted.
MutOrphanRooms(mapping) ==
    SelectSeq(Ascending(1, Len(rooms)), LAMBDA r : mapping[r] # None)

\* fix_capsules: the rooms mapped to None, in the mapping's key order.
OrphanRooms(mapping) ==
    SelectSeq(Ascending(1, Len(rooms)), LAMBDA r : mapping[r] = None)

\* CapsulesManager.get_capsules: the room lists, sorted (stably) by
\* len(x) and x[0], i.e. 0 for an empty list and the first index otherwise.
ListingKey(x) == IF Len(x) = 0 THEN 0 ELSE x[1]

RECURSIVE SortByKeyFrom(_, _)
SortByKeyFrom(lists, keys) ==
    IF keys = {}
    THEN <<>>
    ELSE LET k == CHOOSE x \in keys : \A y \in keys : x <= y
         IN  SelectSeq(lists, LAMBDA x : ListingKey(x) = k) \o SortByKeyFrom(lists, keys \ {k})

\* Mutant: the listing is not sorted.
MutGetCapsules(caps) == [i \in 1..capsules_count |-> caps[i - 1].rooms]

GetCapsules(caps) ==
    LET lists == [i \in 1..capsules_count |-> caps[i - 1].rooms]
    IN  SortByKeyFrom(lists, {ListingKey(lists[i]) : i \in DOMAIN lists})

(***************************************************************************)
(* The inputs: main.load_room_constraints attaches the constraints.        *)
(***************************************************************************)
\* rooms[i].constraints after load_room_constraints: the connecting pairs the
\* room is part of, then Gender, then the harder RoomCount.
LoadRoomConstraints(i, connecting_indices, gender_rooms, harder) ==
    LET pairs == SelectSeq(connecting_indices, LAMBDA p : p[1] = i \/ p[2] = i)
    IN  [k \in DOMAIN pairs |-> ConnectingConstraint(pairs[k][1], pairs[k][2])]
        \o (IF i \in gender_rooms THEN << GenderConstraint >> ELSE <<>>)
        \o (IF harder[i] > 0 THEN << RoomCountConstraint(harder[i]) >> ELSE <<>>)

BuildRooms(genders, connecting_indices, gender_rooms, harder) ==
    [i \in DOMAIN genders |->
        Room(genders[i], LoadRoomConstraints(i, connecting_indices, gender_rooms, harder))]

\* At most one connecting pair, named with the lower index first.
ConnectingChoices(n) ==
    {<<>>} \cup UNION {{<< <<i, j>> >> : j \in (i + 1)..n} : i \in 1..n}

\* Gender constraints on no room, on the first room, or on every room.
GenderRoomChoices(n) == {{}, {1}, 1..n}

\* A harder RoomCount (a max below the largest global one) on no room or on
\* the last room.
HarderChoices(n) ==
    {[i \in 1..n |-> IF i = n THEN m ELSE 0] : m \in 0..(MaxRoomCount - 1)}

\* The genders of n rooms.  The first room is Male: the checks treat the two
\* genders alike (counts and first occurrence), so swapping Female and Male
\* gives the same behaviours.
GenderChoices(n) == {g \in [1..n -> Gender] : g[1] = "Male"}

\* main supplies one global RoomCount; a caller of the manager may also
\* supply a global Gender constraint.
GlobalChoices ==
    {<< RoomCountConstraint(g) >> : g \in 1..MaxRoomCount}
    \cup {<< GenderConstraint, RoomCountConstraint(g) >> : g \in 1..MaxRoomCount}

Control ==
    /\ pc = "build"
    /\ try_count = 0
    /\ fix_count = 0
    /\ need_fixing = FALSE
    /\ needed_fixing = FALSE
    /\ actions = <<>>
    /\ fixed_capsule = None
    /\ rounds = 0
    /\ caller_calls = 0
    /\ supplied = existing_room_mapping
    /\ room_mapping = [r \in DOMAIN rooms |-> None]
    /\ round_start = room_mapping
    /\ capsules = <<>>

Budgets ==
    /\ max_tries_count \in 1..MaxTries
    /\ max_fixes_count \in 1..MaxFixes

\* CapsulesManager.__init__ up to its loop, without a mapping of the caller:
\* the mapping is all None.
InitRandom ==
    /\ \E n \in 1..MaxRooms :
         \E genders \in GenderChoices(n), connecting_indices \in ConnectingChoices(n),
            gender_rooms \in GenderRoomChoices(n), harder \in HarderChoices(n) :
              rooms = BuildRooms(genders, connecting_indices, gender_rooms, harder)
    /\ capsules_count \in 1..MaxCapsules
    /\ global_constraints \in GlobalChoices
    /\ existing_room_mapping = <<>>
    /\ Budgets
    /\ Control

\* The same with a mapping of the caller: every room is a key, mapped to None
\* or to a capsule index.  Gender constraints are on no room, on every room,
\* or global.
InitExisting ==
    /\ \E n \in 1..MaxRooms :
         /\ \E genders \in GenderChoices(n) :
              \/ /\ rooms = BuildRooms(genders, <<>>, {}, [i \in 1..n |-> 0])
                 /\ global_constraints \in GlobalChoices
              \/ /\ rooms = BuildRooms(genders, <<>>, 1..n, [i \in 1..n |-> 0])
                 /\ global_constraints \in {<< RoomCountConstraint(g) >> : g \in 1..MaxRoomCount}
         /\ capsules_count \in 1..MaxCapsules
         /\ \E m \in [1..n -> {None} \cup 0..(capsules_count - 1)] :
              existing_room_mapping = << m >>
    /\ Budgets
    /\ Control

\* The scenario of four rooms, two Male and two Female, two capsules and a
\* global RoomCount(2), without connecting constraints.
FourRooms ==
    /\ Len(rooms) = 4
    /\ Cardinality({r \in 1..4 : rooms[r].gender = "Male"}) = 2
    /\ capsules_count = 2
    /\ global_constraints = << RoomCountConstraint(2) >>
    /\ \A r \in 1..4 : \A k \in DOMAIN rooms[r].constraints :
          rooms[r].constraints[k].kind = "Gender"

InitFourRooms ==
    /\ \E genders \in GenderChoices(4), gender_rooms \in GenderRoomChoices(4) :
          rooms = BuildRooms(genders, <<>>, gender_rooms, [i \in 1..4 |-> 0])
    /\ capsules_count = 2
    /\ global_constraints = << RoomCountConstraint(2) >>
    /\ existing_room_mapping = <<>>
    /\ FourRooms
    /\ Budgets
    /\ Control

Init == InitRandom \/ InitExisting \/ InitFourRooms

(***************************************************************************)
(* Writes to self.room_mapping.  Once build_capsules has bound it to the   *)
(* caller's dict (self.room_mapping = existing_room_mapping) both names    *)
(* are one object, so every write shows in both.                           *)
(***************************************************************************)
Write(mapping) ==
    /\ room_mapping' = mapping
    /\ existing_room_mapping' =
          IF existing_room_mapping = <<>> THEN <<>> ELSE << mapping >>

(***************************************************************************)
(* build_capsules, up to its loop                                          *)
(***************************************************************************)
BuildCapsules ==
    /\ pc = "build"
    /\ IF existing_room_mapping = <<>>
       THEN \E m \in AllocateRoomsRandomly(room_mapping, Ascending(1, Len(rooms))) :
               /\ Write(m)
               /\ capsules' = UpdateCapsules(m)
       ELSE /\ Write(existing_room_mapping[1])
            /\ capsules' = UpdateCapsules(existing_room_mapping[1])
    /\ round_start' = room_mapping'
    /\ fix_count' = 0
    /\ pc' = "fix"
    /\ UNCHANGED << config, try_count, need_fixing, needed_fixing, actions,
                    fixed_capsule, rounds, caller_calls >>

(***************************************************************************)
(* fix_capsules: the scan of the capsules in shuffled order.               *)
(***************************************************************************)
\* Mutant: the scan does not stop at the invalid capsule.
MutScanned(order, k) ==
    [i \in CapsuleIndices |-> ApplyConstraints(capsules[i], global_constraints)]

\* The capsules checked before position k of the order, and the one at k,
\* have had apply_constraints extend their lists.
Scanned(order, k) ==
    [i \in CapsuleIndices |->
        IF \E j \in 1..k : order[j] = i
        THEN ApplyConstraints(capsules[i], global_constraints)
        ELSE capsules[i]]

\* Mutant: the ValueError of a check is caught and counted as a capsule to fix.
MutFixScan ==
    /\ pc = "fix"
    /\ \E order \in shuffle_list(Ascending(0, capsules_count - 1)) :
         LET bad == {k \in DOMAIN order :
                        ~CapsuleValid(order[k], capsules[order[k]], global_constraints)}
         IN  IF bad = {}
             THEN /\ capsules' = Scanned(order, Len(order))
                  /\ need_fixing' = FALSE
                  /\ actions' = <<>>
                  /\ fixed_capsule' = None
                  /\ pc' = "orphans"
             ELSE LET k == CHOOSE x \in bad : \A y \in bad : x <= y
                      checked == Scanned(order, k)
                  IN  \E r \in CapsuleIsValid(order[k], checked[order[k]]) :
                         /\ capsules' = checked
                         /\ need_fixing' = TRUE
                         /\ actions' = r.state
                         /\ fixed_capsule' = order[k]
                         /\ pc' = IF r.state = <<>> THEN "orphans" ELSE "commit"
    /\ UNCHANGED << config, existing_room_mapping, room_mapping, try_count,
                    fix_count, needed_fixing, round_start, rounds, caller_calls >>

FixScan ==
    /\ pc = "fix"
    /\ \E order \in shuffle_list(Ascending(0, capsules_count - 1)) :
         LET bad == {k \in DOMAIN order :
                        ~CapsuleValid(order[k], capsules[order[k]], global_constraints)}
         IN  IF bad = {}
             THEN /\ capsules' = Scanned(order, Len(order))
                  /\ need_fixing' = FALSE
                  /\ actions' = <<>>
                  /\ fixed_capsule' = None
                  /\ pc' = "orphans"
             ELSE LET k == CHOOSE x \in bad : \A y \in bad : x <= y
                      checked == Scanned(order, k)
                  IN  \E r \in CapsuleIsValid(order[k], checked[order[k]]) :
                         /\ capsules' = checked
                         /\ IF r.raised
                            THEN /\ pc' = "value_error"
                                 /\ UNCHANGED << need_fixing, actions, fixed_capsule >>
                            ELSE /\ need_fixing' = TRUE
                                 /\ actions' = r.state
                                 /\ fixed_capsule' = order[k]
                                 /\ pc' = "commit"
    /\ UNCHANGED << config, existing_room_mapping, room_mapping, try_count,
                    fix_count, needed_fixing, round_start, rounds, caller_calls >>

(***************************************************************************)
(* fix_capsules: commit_action for the next suggested action.              *)
(***************************************************************************)
CommitAction ==
    /\ pc = "commit"
    /\ actions # <<>>
    /\ Write(Do(Head(actions), room_mapping))
    /\ capsules' = UpdateCapsules(Do(Head(actions), room_mapping))
    /\ actions' = Tail(actions)
    /\ pc' = IF Tail(actions) = <<>> THEN "orphans" ELSE "commit"
    /\ UNCHANGED << config, try_count, fix_count, need_fixing, needed_fixing,
                    fixed_capsule, round_start, rounds, caller_calls >>

(***************************************************************************)
(* fix_capsules from the orphan rooms to its return, and what its caller   *)
(* does with the result: the loops of build_capsules and __init__, or the  *)
(* holder of a constructed manager.                                        *)
(***************************************************************************)
\* Mutant: the loop of build_capsules runs one round too many.
MutReturn(result) ==
    /\ needed_fixing' = result
    /\ need_fixing' = result
    /\ fixed_capsule' = None
    /\ round_start' = IF result THEN room_mapping' ELSE round_start
    /\ IF caller_calls > 0
       THEN /\ pc' = "done"
            /\ UNCHANGED << try_count, fix_count, rounds, caller_calls >>
       ELSE /\ rounds' = rounds + 1
            /\ UNCHANGED caller_calls
            /\ IF ~result
               THEN /\ pc' = "done"
                    /\ UNCHANGED << try_count, fix_count >>
               ELSE IF fix_count + 1 <= max_fixes_count
               THEN /\ pc' = "fix"
                    /\ fix_count' = fix_count + 1
                    /\ UNCHANGED try_count
               ELSE /\ fix_count' = fix_count + 1
                    /\ try_count' = try_count + 1
                    /\ pc' = IF try_count + 1 < max_tries_count THEN "build" ELSE "failed"

\* The control state after fix_capsules has returned `result`.
Return(result) ==
    /\ needed_fixing' = result
    /\ need_fixing' = result
    /\ fixed_capsule' = None
    /\ round_start' = IF result THEN room_mapping' ELSE round_start
    /\ IF caller_calls > 0
       THEN /\ pc' = "done"
            /\ UNCHANGED << try_count, fix_count, rounds, caller_calls >>
       ELSE /\ rounds' = rounds + 1
            /\ UNCHANGED caller_calls
            /\ IF ~result
               THEN /\ pc' = "done"
                    /\ UNCHANGED << try_count, fix_count >>
               ELSE IF fix_count + 1 < max_fixes_count
               THEN /\ pc' = "fix"
                    /\ fix_count' = fix_count + 1
                    /\ UNCHANGED try_count
               ELSE /\ fix_count' = fix_count + 1
                    /\ try_count' = try_count + 1
                    /\ pc' = IF try_count + 1 < max_tries_count THEN "build" ELSE "failed"

\* Mutant: the capsules are not updated after the orphan rooms are allocated.
MutOrphans ==
    /\ pc = "orphans"
    /\ IF Len(OrphanRooms(room_mapping)) > 0
       THEN /\ \E m \in AllocateRoomsRandomly(room_mapping, OrphanRooms(room_mapping)) :
                 Write(m)
            /\ UNCHANGED capsules
            /\ Return(TRUE)
       ELSE /\ UNCHANGED << existing_room_mapping, room_mapping, capsules >>
            /\ Return(need_fixing)
    /\ UNCHANGED << config, actions >>

Orphans ==
    /\ pc = "orphans"
    /\ IF Len(OrphanRooms(room_mapping)) > 0
       THEN /\ \E m \in AllocateRoomsRandomly(room_mapping, OrphanRooms(room_mapping)) :
                 /\ Write(m)
                 /\ capsules' = UpdateCapsules(m)
            /\ Return(TRUE)
       ELSE /\ UNCHANGED << existing_room_mapping, room_mapping, capsules >>
            /\ Return(need_fixing)
    /\ UNCHANGED << config, actions >>

(***************************************************************************)
(* The holder of a constructed manager calls fix_capsules again.           *)
(***************************************************************************)
CallerFix ==
    /\ pc = "done"
    /\ caller_calls < MaxCallerCalls
    /\ caller_calls' = caller_calls + 1
    /\ pc' = "fix"
    /\ round_start' = room_mapping
    /\ UNCHANGED << config, existing_room_mapping, room_mapping, capsules,
                    try_count, fix_count, need_fixing, needed_fixing, actions,
                    fixed_capsule, rounds >>

Next ==
    \/ BuildCapsules
    \/ FixScan
    \/ CommitAction
    \/ Orphans
    \/ CallerFix

Spec == Init /\ [][Next]_vars

(***************************************************************************)
(* Vocabulary of the properties.                                           *)
(***************************************************************************)
Terminal == pc \in {"done", "failed", "value_error"}

Success == pc = "done"

\* Every room of the mapping has a capsule index.
Assigned(mapping) == \A r \in DOMAIN mapping : mapping[r] \in CapsuleIndices

\* The rooms mapped to capsule i.
Members(i) == {r \in DOMAIN room_mapping : room_mapping[r] = i}

\* The constraints a check of capsule i applies: those of its rooms and the
\* global ones.
Applicable(i) ==
    UNION {Range(rooms[r].constraints) : r \in Members(i)} \cup Range(global_constraints)

SingleGender(i) == \A r1, r2 \in Members(i) : rooms[r1].gender = rooms[r2].gender

\* A repair round has returned and none is running.
RoundCompleted == rounds > 0 /\ pc \in {"fix", "build", "done", "failed"}

\* Room r has been unassigned by a Reduce of the running round.
ReducedThisRound(r) ==
    /\ pc \in {"commit", "orphans"}
    /\ fixed_capsule # None
    /\ round_start[r] = fixed_capsule

\* Room r has had no capsule yet: no round has completed, and the mapping is
\* as created (all None) or r is None in the mapping of the caller.
NotYetAssigned(r) ==
    /\ rounds = 0
    /\ \/ pc = "build"
       \/ supplied # <<>> /\ supplied[1][r] = None

(***************************************************************************)
(* C1 (as amended): the mapping always has exactly the rooms as keys, with *)
(* None or a capsule index as values; after every completed repair round,  *)
(* and in every successful output, every room has a capsule index in       *)
(* 0..capsules_count-1; a room is None only before the first round has     *)
(* re-allocated the orphans (the mapping is created all None and the       *)
(* caller's mapping may hold None), or between a Reduce and the orphan     *)
(* re-allocation of the same round.                                        *)
(***************************************************************************)
C1_AssignedAfterRound ==
    /\ DOMAIN room_mapping = DOMAIN rooms
    /\ \A r \in DOMAIN room_mapping : room_mapping[r] \in CapsuleIndices \cup {None}
    /\ RoundCompleted => Assigned(room_mapping)
    /\ Success => Assigned(room_mapping)
    /\ \A r \in DOMAIN room_mapping :
          room_mapping[r] = None => NotYetAssigned(r) \/ ReducedThisRound(r)

\* C1 as stated: once the first build has begun, a room is None only between
\* a Reduce and the orphan re-allocation of the same round.
C1_NoneOnlyAfterReduce ==
    pc # "build" =>
        \A r \in DOMAIN room_mapping : room_mapping[r] = None => ReducedThisRound(r)

\* A round has completed on a mapping of the caller that held a None.
C1_Witness ==
    /\ RoundCompleted
    /\ supplied # <<>>
    /\ \E r \in DOMAIN room_mapping : supplied[1][r] = None
    /\ Assigned(room_mapping)

(***************************************************************************)
(* C2 (as amended): in a successful output every capsule that has a member *)
(* room with a Gender constraint, and every non-empty capsule when a       *)
(* Gender constraint is global, holds rooms of one gender; in the scenario *)
(* of four rooms, if at least one room has a Gender constraint the two     *)
(* Male rooms share one capsule and the two Female rooms the other.        *)
(***************************************************************************)
GenderApplies(i) == Members(i) # {} /\ GenderConstraint \in Applicable(i)

MalesAndFemalesApart ==
    \A r1, r2 \in DOMAIN rooms :
        (room_mapping[r1] = room_mapping[r2]) <=> (rooms[r1].gender = rooms[r2].gender)

C2_OneGenderWhereConstrained ==
    Success =>
        /\ \A i \in CapsuleIndices : GenderApplies(i) => SingleGender(i)
        /\ (FourRooms /\ \E r \in DOMAIN rooms : rooms[r].constraints # <<>>)
              => MalesAndFemalesApart

\* C2 as stated: every capsule of a successful output holds one gender, and
\* the scenario's outputs keep Male and Female rooms apart.
C2_OneGenderEverywhere ==
    Success =>
        /\ \A i \in CapsuleIndices : SingleGender(i)
        /\ FourRooms => MalesAndFemalesApart

\* The scenario succeeded after a repair, with a Gender constraint on some room.
C2_Witness ==
    /\ Success
    /\ FourRooms
    /\ \E r \in DOMAIN rooms : rooms[r].constraints # <<>>
    /\ rounds >= 2
    /\ MalesAndFemalesApart

(***************************************************************************)
(* C3: in a successful output every capsule has at most as many rooms as   *)
(* the smallest max among the RoomCount constraints that apply to it: the  *)
(* global ones and those of its member rooms.                              *)
(***************************************************************************)
C3_RoomCountRespected ==
    Success =>
        \A i \in CapsuleIndices : \A c \in Applicable(i) :
            c.kind = "RoomCount" => Cardinality(Members(i)) <= c.max_room_count

\* A success after a repair where a room's own RoomCount is tighter than the
\* global one.
C3_Witness ==
    /\ Success
    /\ rounds >= 2
    /\ \E i \in CapsuleIndices : \E r \in Members(i) : \E c \in Range(rooms[r].constraints) :
          /\ c.kind = "RoomCount"
          /\ \A g \in Range(global_constraints) :
                g.kind = "RoomCount" => c.max_room_count < g.max_room_count
          /\ Cardinality(Members(i)) = c.max_room_count

(***************************************************************************)
(* C4: in a successful output the two rooms of every Connecting constraint *)
(* attached to a room are in the same capsule; a construction that cannot  *)
(* reconcile them does not end in success.                                 *)
(***************************************************************************)
Connected ==
    \A r \in DOMAIN rooms : \A c \in Range(rooms[r].constraints) :
        c.kind = "Connecting" => room_mapping[c.room1] = room_mapping[c.room2]

C4_ConnectedTogether == Success => Connected

\* A success after a repair, with a connecting pair and more than one capsule.
C4_Witness ==
    /\ Success
    /\ rounds >= 2
    /\ capsules_count > 1
    /\ \E r \in DOMAIN rooms : \E c \in Range(rooms[r].constraints) : c.kind = "Connecting"

(***************************************************************************)
(* C5: the constructor runs at most max_tries_count tries of at most       *)
(* max_fixes_count rounds each and every step brings it nearer to its end; *)
(* it returns at the first round that reports no fixing needed and runs no *)
(* round or try after it; it raises the "maximum try attempts" error       *)
(* exactly when every try has used up its rounds.                          *)
(***************************************************************************)
InConstructor == caller_calls = 0

\* What is left to run: the rounds of the budget, and within a round the
\* steps up to its return.
Measure ==
    LET stage == CASE pc = "build" -> Len(rooms) + 4
                   [] pc = "fix" -> Len(rooms) + 3
                   [] pc = "commit" -> Len(actions) + 1
                   [] pc = "orphans" -> 1
                   [] OTHER -> 0
    IN  (max_tries_count * max_fixes_count - rounds) * (Len(rooms) + 5) + stage

C5_Budget ==
    /\ try_count <= max_tries_count
    /\ fix_count <= max_fixes_count
    /\ rounds <= max_tries_count * max_fixes_count
    /\ Len(actions) <= Len(rooms)
    /\ (InConstructor /\ pc \in {"fix", "commit", "orphans", "value_error"}) =>
          /\ try_count < max_tries_count
          /\ fix_count < max_fixes_count
          /\ rounds = try_count * max_fixes_count + fix_count
    /\ pc = "build" => try_count < max_tries_count /\ rounds = try_count * max_fixes_count
    /\ pc = "done" =>
          /\ ~needed_fixing
          /\ try_count < max_tries_count
          /\ rounds = try_count * max_fixes_count + fix_count + 1
    /\ pc = "failed" <=> try_count = max_tries_count
    /\ pc = "failed" => rounds = max_tries_count * max_fixes_count
    /\ (InConstructor /\ rounds > 0 /\ pc # "done") => needed_fixing

C5_Step ==
    /\ InConstructor' => Measure' < Measure
    /\ (InConstructor /\ rounds' = rounds + 1 /\ ~needed_fixing') => pc' = "done"
    /\ pc \in {"done", "failed"} =>
          rounds' = rounds /\ try_count' = try_count /\ fix_count' = fix_count

C5_Terminates == [](C5_Budget /\ Measure >= 0) /\ [][C5_Step]_vars

\* Every try of a budget of at least two tries of two rounds was used up.
C5_Witness ==
    /\ pc = "failed"
    /\ max_tries_count >= 2
    /\ max_fixes_count >= 2
    /\ rounds = max_tries_count * max_fixes_count

(***************************************************************************)
(* C6: with a mapping of the caller that assigns every room, every try     *)
(* starts from the values the caller supplied.                             *)
(***************************************************************************)
C6_TryStartsFromSupplied ==
    (supplied # <<>> /\ InConstructor /\ pc = "fix" /\ fix_count = 0)
        => (Assigned(supplied[1]) => room_mapping = supplied[1])

(***************************************************************************)
(* C7: a repair round on a mapping with every room assigned and every      *)
(* capsule valid reports that no fixing was needed and changes neither the *)
(* mapping nor any capsule's rooms; so does a round called after it.       *)
(***************************************************************************)
ValidMapping ==
    /\ Assigned(room_mapping)
    /\ \A i \in CapsuleIndices :
          CapsuleValid(i, Update(i, room_mapping), global_constraints)

SameRooms ==
    /\ room_mapping' = room_mapping
    /\ existing_room_mapping' = existing_room_mapping
    /\ \A i \in CapsuleIndices : capsules'[i].rooms = capsules[i].rooms

C7_Round ==
    /\ (pc = "fix" /\ ValidMapping) =>
          pc' = "orphans" /\ ~need_fixing' /\ actions' = <<>> /\ SameRooms
    /\ (pc = "orphans" /\ ~need_fixing /\ ValidMapping) =>
          pc' = "done" /\ ~needed_fixing' /\ SameRooms

C7_Returned ==
    pc = "done" => ~needed_fixing /\ room_mapping = round_start /\ ValidMapping

C7_Idempotent == []C7_Returned /\ [][C7_Round]_vars

\* A round called on a successfully constructed manager has returned.
C7_Witness == pc = "done" /\ caller_calls >= 1 /\ rounds >= 2

(***************************************************************************)
(* C8: when there are more rooms than capsules_count times the global      *)
(* RoomCount max, the constructor ends with the exhaustion error.          *)
(***************************************************************************)
OverCapacity ==
    \E g \in Range(global_constraints) :
        g.kind = "RoomCount" /\ Len(rooms) > capsules_count * g.max_room_count

C8_OverCapacityExhausts == (OverCapacity /\ Terminal) => pc = "failed"

\* The part of C8 that the code keeps: over capacity no try succeeds, and the
\* scenario of two rooms, one capsule and RoomCount(1) ends exhausted.
C8_OverCapacityNeverSucceeds ==
    /\ OverCapacity => ~Success
    /\ (Len(rooms) = 2 /\ capsules_count = 1
          /\ global_constraints = << RoomCountConstraint(1) >> /\ Terminal)
        => pc = "failed"

(***************************************************************************)
(* C9: the listing of a successful output has one entry per capsule, each  *)
(* the capsule's room indices in ascending order, the entries ordered by   *)
(* first room index with the empty ones first; mappings that differ by a   *)
(* renaming of the capsules give the same listing.                         *)
(***************************************************************************)
AscendingMembers(i) == SelectSeq(Ascending(1, Len(rooms)), LAMBDA r : r \in Members(i))

Renamed(p) == [r \in DOMAIN room_mapping |-> p[room_mapping[r]]]

Raises(i) ==
    \E r \in CapsuleIsValid(i, ApplyConstraints(capsules[i], global_constraints)) : r.raised

Repairable(i) ==
    \E r \in CapsuleIsValid(i, ApplyConstraints(capsules[i], global_constraints)) :
        ~r.valid /\ ~r.raised

C10_Step ==
    /\ pc # "value_error"
    /\ pc' = "value_error" =>
          /\ pc = "fix"
          /\ \E i \in CapsuleIndices : Raises(i)
          /\ rounds' = rounds /\ try_count' = try_count /\ fix_count' = fix_count
          /\ room_mapping' = room_mapping
    /\ (pc = "fix" /\ \E i \in CapsuleIndices : Raises(i)) => pc' # "orphans"
    /\ (pc = "fix" /\ (\E i \in CapsuleIndices : Raises(i))
           /\ ~(\E i \in CapsuleIndices : Repairable(i)))
          => pc' = "value_error"

C10_RaiseIsFinal == [][C10_Step]_vars

\* A Gender check has raised in a construction that had tries and rounds left.
C10_Witness ==
    /\ pc = "value_error"
    /\ try_count + 1 < max_tries_count
    /\ fix_count + 1 < max_fixes_count

(***************************************************************************)
(* Vocabulary of the checks of one capsule.                                *)
(***************************************************************************)
\* Constraint c, checked on the rooms rs of capsule i, suggests actions.
Violated(c, i, rs) == \E r \in IsValid(c, i, rs) : ~r.valid /\ ~r.raised

\* The list a check of capsule i evaluates now.
Evaluated(i) == ApplyConstraints(capsules[i], global_constraints)

\* The scan has just returned the actions of fixed_capsule; none is committed.
JustScanned == pc = "commit" /\ fixed_capsule # None /\ room_mapping = round_start

KindViolated(kind, i) ==
    \E k \in DOMAIN Evaluated(i).constraints :
        /\ Evaluated(i).constraints[k].kind = kind
        /\ Violated(Evaluated(i).constraints[k], i, capsules[i].rooms)

(***************************************************************************)
(* C11: in the check of one capsule Connecting comes before Gender and     *)
(* Gender before RoomCount, whatever the max of the RoomCount: when a      *)
(* Connecting and a RoomCount constraint are both violated the actions     *)
(* returned are the Add of the Connecting constraint; when a Gender and a  *)
(* RoomCount constraint are both violated, and no Connecting one, they are *)
(* the Reduce actions of the Gender constraint.                            *)
(***************************************************************************)
C11_ConnectingGenderRoomCount ==
    JustScanned =>
        LET i == fixed_capsule
        IN  /\ (KindViolated("Connecting", i) /\ KindViolated("RoomCount", i))
                  => (Len(actions) = 1 /\ actions[1].kind = "Add")
            /\ (KindViolated("Gender", i) /\ KindViolated("RoomCount", i)
                   /\ ~KindViolated("Connecting", i))
                  => \E r \in GenderIsValid(i, capsules[i].rooms) : actions = r.state

\* The part of C11 that the code keeps: Connecting comes before Gender, and a
\* RoomCount constraint comes before both unless its order, (max - 2) * 8,
\* is above theirs.
C11_OrderedByOrder ==
    JustScanned =>
        LET i == fixed_capsule
            small(bound) ==
                \E k \in DOMAIN Evaluated(i).constraints :
                    /\ Evaluated(i).constraints[k].kind = "RoomCount"
                    /\ Violated(Evaluated(i).constraints[k], i, capsules[i].rooms)
                    /\ (Evaluated(i).constraints[k].max_room_count - 2) * 8 < bound
        IN  /\ (KindViolated("Connecting", i) /\ ~small(10))
                  => (Len(actions) = 1 /\ actions[1].kind = "Add")
            /\ (KindViolated("RoomCount", i) /\ small(10))
                  => (Len(actions) >= 1 /\ \A k \in DOMAIN actions : actions[k].kind = "Reduce")
            /\ (KindViolated("Gender", i) /\ ~KindViolated("Connecting", i) /\ ~small(20))
                  => \E r \in GenderIsValid(i, capsules[i].rooms) : actions = r.state

(***************************************************************************)
(* C12: apply_constraints returns (True, []) exactly when every constraint *)
(* of the capsule's rooms and every global constraint passes; otherwise it *)
(* returns (False, actions) with a non-empty list of actions, those of a   *)
(* violated constraint whose order is minimal among the violated ones.     *)
(***************************************************************************)
\* A result r of the check of capsule i is a return value as C12 describes.
AsOrdered(i, r) ==
    LET cs == Evaluated(i).constraints
        rs == Evaluated(i).rooms
    IN  /\ r.valid <=> \A k \in DOMAIN cs : Passes(cs[k], i, rs)
        /\ r.valid => r.state = <<>>
        /\ ~r.valid =>
              /\ r.state # <<>>
              /\ \E k \in DOMAIN cs :
                    /\ Violated(cs[k], i, rs)
                    /\ r \in IsValid(cs[k], i, rs)
                    /\ \A j \in DOMAIN cs :
                          Violated(cs[j], i, rs) => Order(cs[k]) <= Order(cs[j])

C12_FirstViolatedReturned ==
    pc = "fix" =>
        \A i \in CapsuleIndices : \A r \in CapsuleIsValid(i, Evaluated(i)) :
            ~r.raised /\ AsOrdered(i, r)

\* The part of C12 that the code keeps: every check that returns, returns as
\* described.
C12_ReturnsAsOrdered ==
    pc = "fix" =>
        \A i \in CapsuleIndices : \A r \in CapsuleIsValid(i, Evaluated(i)) :
            ~r.raised => AsOrdered(i, r)

(***************************************************************************)
(* C13: a repair round applies the actions of at most one capsule.  The    *)
(* scan changes no mapping value and stops at the first capsule it finds   *)
(* invalid: every other capsule it has checked was valid, and no capsule   *)
(* is checked after it.  All actions returned for that capsule are applied *)
(* in sequence, each to one room and each naming that capsule.  The only   *)
(* other change of the mapping in the round is the allocation of the rooms *)
(* that are None after the actions.                                        *)
(***************************************************************************)
\* Capsule j is checked by the step: apply_constraints has extended its list.
Checked(j) == capsules'[j].constraints = capsules[j].constraints \o global_constraints

C13_Scan ==
    pc = "fix" =>
        /\ room_mapping' = room_mapping
        /\ pc' = "orphans" =>
              /\ fixed_capsule' = None
              /\ \A j \in CapsuleIndices :
                    Checked(j) /\ CapsuleValid(j, capsules[j], global_constraints)
        /\ pc' = "commit" =>
              /\ fixed_capsule' \in CapsuleIndices
              /\ Checked(fixed_capsule')
              /\ ~CapsuleValid(fixed_capsule', capsules[fixed_capsule'], global_constraints)
              /\ \A j \in CapsuleIndices \ {fixed_capsule'} :
                    \/ capsules'[j] = capsules[j]
                    \/ Checked(j) /\ CapsuleValid(j, capsules[j], global_constraints)
              /\ actions' # <<>>
              /\ \A k \in DOMAIN actions' : actions'[k].capsule_index = fixed_capsule'

C13_Commit ==
    pc = "commit" =>
        /\ fixed_capsule' = fixed_capsule
        /\ actions # <<>>
        /\ actions' = Tail(actions)
        /\ pc' = (IF actions' = <<>> THEN "orphans" ELSE "commit")
        /\ \A r \in DOMAIN room_mapping :
              room_mapping'[r] # room_mapping[r] <=> r = Head(actions).room
        /\ \A j \in CapsuleIndices : capsules'[j] = Update(j, room_mapping')

C13_Orphans ==
    pc = "orphans" =>
        \A r \in DOMAIN room_mapping :
            room_mapping'[r] # room_mapping[r] => room_mapping[r] = None

C13_OneCapsulePerRound == [][C13_Scan /\ C13_Commit /\ C13_Orphans]_vars

\* The actions of one of two capsules that were invalid when the round began
\* have been applied; the other capsule is as it was.
C13_Witness ==
    /\ pc = "orphans"
    /\ fixed_capsule # None
    /\ \E j \in CapsuleIndices \ {fixed_capsule} :
          /\ ~CapsuleValid(j, Update(j, round_start), global_constraints)
          /\ \A r \in DOMAIN room_mapping :
                round_start[r] = j => room_mapping[r] = j

(***************************************************************************)
(* C14: once all actions suggested for a violated constraint are applied,  *)
(* and before the orphan rooms are re-allocated, the constraint holds for  *)
(* the capsule.  After RoomCount(max) the capsule has exactly max rooms,   *)
(* count - max of its rooms having been unassigned; after Connecting(a, b) *)
(* both a and b are in the capsule, the absent one having been moved       *)
(* there; after Gender the capsule is non-empty and of one gender, the     *)
(* rooms unassigned being all those of a gender that had no more rooms     *)
(* than the other.  Each action changes the mapping value of one room.     *)
(***************************************************************************)
\* The rooms of the repaired capsule when the round began.
MembersBefore == {r \in DOMAIN round_start : round_start[r] = fixed_capsule}

\* The constraint whose actions the round applies: the first one, in the
\* order of the check, that the capsule violated when the round began.
ViolatedAtScan ==
    LET cap == ApplyConstraints(Update(fixed_capsule, round_start), global_constraints)
        cs == Sorted(cap.constraints)
        bad == {k \in DOMAIN cs : ~Passes(cs[k], fixed_capsule, cap.rooms)}
    IN  cs[CHOOSE k \in bad : \A l \in bad : k <= l]

\* All actions of the round are applied and the orphans not yet re-allocated.
ActionsApplied == pc = "orphans" /\ fixed_capsule # None

C14_Restored ==
    ActionsApplied =>
        LET c == ViolatedAtScan
            i == fixed_capsule
            before == MembersBefore
            after == Members(i)
            count(g, set) == Cardinality({r \in set : rooms[r].gender = g})
        IN  /\ Passes(c, i, Update(i, room_mapping).rooms)
            /\ \A r \in DOMAIN room_mapping :
                  room_mapping[r] # round_start[r] =>
                      r \in (before \ after) \cup (after \ before)
            /\ c.kind = "RoomCount" =>
                  /\ Cardinality(after) = c.max_room_count
                  /\ after \subseteq before
                  /\ Cardinality(before \ after) = Cardinality(before) - c.max_room_count
                  /\ \A r \in before \ after : room_mapping[r] = None
            /\ c.kind = "Connecting" =>
                  /\ {c.room1, c.room2} \subseteq after
                  /\ before \subseteq after
                  /\ Cardinality(after \ before) = 1
                  /\ after \ before \subseteq {c.room1, c.room2}
            /\ c.kind = "Gender" =>
                  /\ after # {}
                  /\ SingleGender(i)
                  /\ after \subseteq before
                  /\ \A r \in before \ after : room_mapping[r] = None
                  /\ \E g \in Gender :
                        /\ before \ after = {r \in before : rooms[r].gender = g}
                        /\ \A h \in Gender : count(g, before) <= count(h, before)

C14_OneRoomPerAction ==
    pc = "commit" =>
        /\ Cardinality({r \in DOMAIN room_mapping : room_mapping'[r] # room_mapping[r]}) = 1
        /\ room_mapping'[Head(actions).room] # room_mapping[Head(actions).room]

C14_ActionsRestore == []C14_Restored /\ [][C14_OneRoomPerAction]_vars

\* Two rooms of a capsule over its RoomCount max have been unassigned.
C14_Witness ==
    /\ ActionsApplied
    /\ ViolatedAtScan.kind = "RoomCount"
    /\ Cardinality(MembersBefore \ Members(fixed_capsule)) = 2

\* The absent room of a connecting pair has been moved out of its capsule.
C14_ConnectingRepaired ==
    /\ ActionsApplied
    /\ ViolatedAtScan.kind = "Connecting"
    /\ \E r \in Members(fixed_capsule) : round_start[r] \in CapsuleIndices \ {fixed_capsule}

\* A room of a capsule of two genders has been unassigned.
C14_GenderRepaired ==
    /\ ActionsApplied
    /\ ViolatedAtScan.kind = "Gender"
    /\ Cardinality(MembersBefore) = 2

(***************************************************************************)
(* C15: whenever a capsule is about to be checked, whenever a repair round *)
(* has returned, and in a successful output, the room list of every        *)
(* capsule is exactly the rooms the mapping gives that capsule's index,    *)
(* each once; no room is in the lists of two capsules.                     *)
(***************************************************************************)
InSync ==
    /\ DOMAIN capsules = CapsuleIndices
    /\ \A i \in CapsuleIndices :
          /\ Range(capsules[i].rooms) = Members(i)
          /\ Len(capsules[i].rooms) = Cardinality(Members(i))
    /\ \A i, j \in CapsuleIndices :
          i # j => Range(capsules[i].rooms) \cap Range(capsules[j].rooms) = {}

C15_RoomListsInSync ==
    (pc = "fix" \/ RoundCompleted \/ Success) => InSync

\* A round that re-allocated orphan rooms has returned and the next check is due.
C15_Witness ==
    /\ pc = "fix"
    /\ rounds >= 1
    /\ capsules_count >= 2
    /\ needed_fixing
    /\ \E i \in CapsuleIndices : Len(capsules[i].rooms) >= 2

(***************************************************************************)
(* C16: global constraints do not accumulate across repair rounds: when a  *)
(* round starts, the constraint list of every capsule is the concatenation *)
(* of its member rooms' constraints, without a global constraint, so the   *)
(* list a check evaluates holds the global constraints once.               *)
(***************************************************************************)
\* The constraint list of capsule i is that of its rooms alone.
RoomConstraintsOnly(i) == capsules[i].constraints = UpdateConstraints(capsules[i].rooms)

C16_NoGlobalAtRoundStart ==
    pc = "fix" =>
        \A i \in CapsuleIndices :
            /\ RoomConstraintsOnly(i)
            /\ Evaluated(i).constraints
                  = UpdateConstraints(capsules[i].rooms) \o global_constraints

\* The part of C16 that the code keeps: the rounds run by the constructor
\* start without global constraints in the lists.  A round that finds
\* nothing to fix leaves them in, once per such round.
C16_NoGlobalInConstructor ==
    /\ (pc = "fix" /\ InConstructor) => \A i \in CapsuleIndices : RoomConstraintsOnly(i)
    /\ pc = "done" =>
          \A i \in CapsuleIndices :
              capsules[i].constraints =
                  UpdateConstraints(capsules[i].rooms)
                      \o Flatten([k \in 1..(caller_calls + 1) |-> global_constraints])

(***************************************************************************)
(* C17: allocate_rooms_randomly, for any rooms it is given (all rooms, the *)
(* orphan rooms, or any other subset) and any outcome of its shuffles,     *)
(* gives every room it is given a capsule index in 0..capsules_count-1 and *)
(* leaves the mapping value of every other room as it was.                 *)
(***************************************************************************)
\* m is the mapping with the rooms of targets allocated and the rest untouched.
Allocated(m, mapping, targets) ==
    /\ DOMAIN m = DOMAIN mapping
    /\ \A r \in targets : m[r] \in CapsuleIndices
    /\ \A r \in DOMAIN mapping \ targets : m[r] = mapping[r]

\* Checked on the mappings the routine is called with.
C17_AnyTargets ==
    pc \in {"build", "orphans"} =>
        \A targets \in SUBSET DOMAIN room_mapping :
            \A m \in AllocateRoomsRandomly(room_mapping,
                        SelectSeq(Ascending(1, Len(rooms)), LAMBDA r : r \in targets)) :
                Allocated(m, room_mapping, targets)

C17_Calls ==
    /\ (pc = "build" /\ existing_room_mapping = <<>>) =>
          Allocated(room_mapping', room_mapping, DOMAIN room_mapping)
    /\ pc = "orphans" =>
          Allocated(room_mapping', room_mapping,
                    {r \in DOMAIN room_mapping : room_mapping[r] = None})

C17_AllocationFrame == []C17_AnyTargets /\ [][C17_Calls]_vars

\* The first round has allocated the rooms the caller left at None and has
\* kept a room the caller had placed.
C17_Witness ==
    /\ pc = "fix"
    /\ rounds = 1
    /\ supplied # <<>>
    /\ capsules_count >= 2
    /\ \E r \in DOMAIN room_mapping :
          supplied[1][r] = None /\ room_mapping[r] \in CapsuleIndices
    /\ \E r \in DOMAIN room_mapping :
          supplied[1][r] # None /\ room_mapping[r] = supplied[1][r]

(***************************************************************************)
(* allocate_rooms_randomly on its own: any mapping of up to MaxAllocRooms  *)
(* rooms to None or to one of up to MaxAllocCapsules capsules, as a try or *)
(* a repair may leave it, and then one call, on all rooms                  *)
(* (randomize_room_mapping) or on the rooms that are None (fix_capsules).  *)
(***************************************************************************)
MaxAllocRooms == 4

MaxAllocCapsules == 3

InitAllocate ==
    /\ \E n \in 1..MaxAllocRooms :
          rooms = BuildRooms([i \in 1..n |-> "Male"], <<>>, {}, [i \in 1..n |-> 0])
    /\ capsules_count \in 1..MaxAllocCapsules
    /\ global_constraints = << RoomCountConstraint(MaxAllocRooms) >>
    /\ max_tries_count = 1
    /\ max_fixes_count = 1
    /\ existing_room_mapping = <<>>
    /\ supplied = <<>>
    /\ room_mapping \in [DOMAIN rooms -> {None} \cup CapsuleIndices]
    /\ round_start = room_mapping
    /\ capsules = <<>>
    /\ pc = "allocate"
    /\ try_count = 0
    /\ fix_count = 0
    /\ need_fixing = FALSE
    /\ needed_fixing = FALSE
    /\ actions = <<>>
    /\ fixed_capsule = None
    /\ rounds = 0
    /\ caller_calls = 0

\* CapsulesManager.randomize_room_mapping
RandomizeRoomMapping ==
    /\ pc = "allocate"
    /\ room_mapping' \in AllocateRoomsRandomly(room_mapping, Ascending(1, Len(rooms)))
    /\ pc' = "randomized"
    /\ UNCHANGED << config, existing_room_mapping, capsules, try_count, fix_count,
                    need_fixing, needed_fixing, actions, fixed_capsule, round_start,
                    rounds, caller_calls >>

\* fix_capsules: the allocation of the orphan rooms.
AllocateOrphans ==
    /\ pc = "allocate"
    /\ Len(OrphanRooms(room_mapping)) > 0
    /\ room_mapping' \in AllocateRoomsRandomly(room_mapping, OrphanRooms(room_mapping))
    /\ pc' = "allocated"
    /\ UNCHANGED << config, existing_room_mapping, capsules, try_count, fix_count,
                    need_fixing, needed_fixing, actions, fixed_capsule, round_start,
                    rounds, caller_calls >>

NextAllocate ==
    \/ RandomizeRoomMapping
    \/ AllocateOrphans

SpecAllocate == InitAllocate /\ [][NextAllocate]_vars

(***************************************************************************)
(* C18: allocate_rooms_randomly on n rooms gives every capsule n div       *)
(* capsules_count of them, or one more; the n mod capsules_count rooms     *)
(* left over go to different capsules; so after an allocation of all rooms *)
(* the sizes of the capsules differ by at most one, whatever the mapping   *)
(* was before.                                                             *)
(***************************************************************************)
\* The rooms the call was given.
Targeted ==
    IF pc = "randomized"
    THEN DOMAIN room_mapping
    ELSE {r \in DOMAIN room_mapping : round_start[r] = None}

\* The rooms of targets that m gives capsule c.
Received(m, targets, c) == Cardinality({r \in targets : m[r] = c})

BalancedOver(m, targets) ==
    LET n == Cardinality(targets)
        factor == n \div capsules_count
    IN  /\ \A c \in CapsuleIndices : Received(m, targets, c) \in {factor, factor + 1}
        /\ Cardinality({c \in CapsuleIndices : Received(m, targets, c) = factor + 1})
              = n % capsules_count

SizesWithinOne(m) ==
    \A c, d \in CapsuleIndices :
        Received(m, DOMAIN m, c) - Received(m, DOMAIN m, d) <= 1

C18_Balanced ==
    /\ pc \in {"randomized", "allocated"} => BalancedOver(room_mapping, Targeted)
    /\ pc = "randomized" => SizesWithinOne(room_mapping)

\* Two orphan rooms, fewer than the three capsules, have gone to different
\* capsules; another room was not given to the call.
C18_Witness ==
    /\ pc = "allocated"
    /\ capsules_count = 3
    /\ Cardinality(Targeted) = 2
    /\ Cardinality(DOMAIN room_mapping) > 2
    /\ \A r1, r2 \in Targeted : r1 # r2 => room_mapping[r1] # room_mapping[r2]

\* C18 in the constructor: without a mapping of the caller every try starts
\* with capsule sizes that differ by at most one.
C18_TryStartsBalanced ==
    (supplied = <<>> /\ InConstructor /\ pc = "fix" /\ fix_count = 0)
        => (Assigned(room_mapping) /\ SizesWithinOne(room_mapping))

(***************************************************************************)
(* C19: a try is reported as failed only if the mapping it ends with       *)
(* violates a constraint: a mapping with every room assigned and every     *)
(* capsule valid is never given up for a retry or for the exhaustion       *)
(* error, also when it became valid in the last round of the budget.       *)
(***************************************************************************)
\* A try has just been reported as failed; the mapping is as the try left it.
TryFailed == try_count > 0 /\ pc \in {"build", "failed"}

C19_FailedOnlyIfInvalid == TryFailed => ~ValidMapping

\* The part of C19 that the code keeps: a try fails only if its last round
\* had something to fix, and a try whose mapping is valid before a round of
\* its budget succeeds in that round.
C19_FailedOnlyAfterFixing ==
    /\ TryFailed => needed_fixing /\ fix_count = max_fixes_count
    /\ Success => ValidMapping

(***************************************************************************)
(* C20: with rooms of the genders Male and Female no Gender check raises:  *)
(* every check of a capsule ends as valid or with actions, whether the     *)
(* Gender constraint is on rooms or in the global list, also for a capsule *)
(* without rooms.                                                          *)
(***************************************************************************)
C20_NoGenderError ==
    /\ pc # "value_error"
    /\ pc = "fix" => \A i \in CapsuleIndices : ~Raises(i)

\* The part of C20 that the code keeps: a check raises only for a capsule
\* without rooms under a global Gender constraint.
C20_RaisesOnlyOnEmptyCapsule ==
    /\ pc = "fix" =>
          \A i \in CapsuleIndices :
              Raises(i) =>
                  /\ capsules[i].rooms = <<>>
                  /\ GenderConstraint \in Range(global_constraints)
    /\ pc = "value_error" => GenderConstraint \in Range(global_constraints)

====
